---- MODULE Spec2Model ----
(***************************************************************************)
(* The collector of the chicken feeder (server/backend/server.js) with its *)
(* PostgreSQL tables (server/database/init.sql): the in-memory registry of  *)
(* device configurations, the three tables, the HTTP handlers and the      *)
(* missed-feeding detector that node-cron runs every minute.               *)
(*                                                                         *)
(* Time is an integer count of clock instants, UnitsPerMinute of them per  *)
(* minute (the code has millisecond resolution).  Strings that the code    *)
(* inspects character by character (HH:MM) are sequences of one-character  *)
(* strings.  A JSON object is a record; an absent key is absent from its   *)
(* DOMAIN.                                                                 *)
(***************************************************************************)
EXTENDS Integers, Sequences, FiniteSets, TLC

\* ---------------------------------------------------------------- bounds
UnitsPerMinute == 2
MaxMinute == 6
MaxMinuteApi == 0
MaxFailures == 1
MaxLogs == 2
MaxOpens == 1
MaxPending == 1
MaxRuns == 1

\* ------------------------------------------------------ program constants
GraceMinutes == 5
DefaultLimit == 100
MinDuration == 1
MaxDuration == 120

\* The last instant of the detector's runs, and of the API's.
MaxTime == (MaxMinute + 1) * UnitsPerMinute - 1
MaxTimeApi == (MaxMinuteApi + 1) * UnitsPerMinute - 1

\* ------------------------------------------------------------------ state
VARIABLES
    hostZone,        \* the host's timezone (TZ), as minutes east of UTC
    clock,           \* the wall clock (new Date(), NOW())
    up,              \* the node process is running
    deviceConfigs,   \* the Map of line 67, as its entries in insertion order
    device_configs,  \* table device_configs (rows)
    feeding_logs,    \* table feeding_logs (rows in insertion order)
    missed_feedings, \* table missed_feedings (rows)
    pending,         \* config pushes awaiting their INSERT (line 94)
    runs,            \* detector ticks in flight
    tickDue,         \* node-cron has not yet fired in the current minute
    errorLog,        \* the distinct logger.error lines (error.log)
    resp             \* the HTTP response the last step sent (NoResp: none)

vars == <<hostZone, clock, up, deviceConfigs, device_configs, feeding_logs, missed_feedings,
          pending, runs, tickDue, errorLog, resp>>

\* ------------------------------------------------------------ clock, Date
\* The timezone of the schedules (README: KST) and UTC, as minutes east of
\* UTC; the zones a host may be set to.
KST == 540
UTC == 0
HostZones == {KST, UTC}

\* The minute of the day that a host set to zone shows at instant t (instant
\* 0 is 00:00 KST).
LocalMinuteOfDay(zone, t) == ((t \div UnitsPerMinute) + zone - KST + 24 * 60) % (24 * 60)

\* Date.prototype.getHours / getMinutes of an instant: host local time.
getMinutes(t) == LocalMinuteOfDay(hostZone, t) % 60
getHours(t) == LocalMinuteOfDay(hostZone, t) \div 60

DigitChars == <<"0", "1", "2", "3", "4", "5", "6", "7", "8", "9">>
IsDigit(c) == \E i \in 1..10 : DigitChars[i] = c

\* Number.prototype.toString (base 10) of a number below 100.
toString(n) ==
    IF n < 10 THEN <<DigitChars[n + 1]>>
    ELSE <<DigitChars[(n \div 10) + 1], DigitChars[(n % 10) + 1]>>

\* String.prototype.padStart(2, '0')
padStart2(s) == IF Len(s) >= 2 THEN s ELSE <<"0">> \o s

\* `${hours.padStart(2,'0')}:${minutes.padStart(2,'0')}`
currentTime(t) ==
    padStart2(toString(getHours(t))) \o <<":">> \o padStart2(toString(getMinutes(t)))

\* Array.prototype.includes
includes(arr, v) == \E i \in 1..Len(arr) : arr[i] = v

\* ------------------------------------------------------ validation (Joi)
\* /^([01]\d|2[0-3]):([0-5]\d)$/
MatchesHHMM(s) ==
    /\ Len(s) = 5
    /\ \/ s[1] \in {"0", "1"} /\ IsDigit(s[2])
       \/ s[1] = "2" /\ s[2] \in {"0", "1", "2", "3"}
    /\ s[3] = ":"
    /\ s[4] \in {"0", "1", "2", "3", "4", "5"}
    /\ IsDigit(s[5])

ConfigKeys == {"device_id", "feeding_times", "duration_minutes"}

\* configUpdateSchema.validate(body).error is undefined
configUpdateSchemaValid(body) ==
    /\ DOMAIN body \subseteq ConfigKeys
    /\ "device_id" \in DOMAIN body
    /\ body.device_id # ""
    /\ "feeding_times" \in DOMAIN body
    /\ \A i \in 1..Len(body.feeding_times) : MatchesHHMM(body.feeding_times[i])
    /\ "duration_minutes" \in DOMAIN body
    /\ body.duration_minutes >= MinDuration
    /\ body.duration_minutes <= MaxDuration

ValidActions == {"open", "close", "error", "startup", "shutdown"}
LogKeys == {"device_id", "action", "timestamp", "details"}

\* feedingLogSchema with action as a bare Joi.string(): any action passes.
feedingLogSchemaAnyAction(body) ==
    /\ DOMAIN body \subseteq LogKeys
    /\ "device_id" \in DOMAIN body
    /\ body.device_id # ""
    /\ "action" \in DOMAIN body
    /\ "timestamp" \in DOMAIN body
    /\ body.timestamp.fmt = "iso"
    /\ ("details" \in DOMAIN body => body.details.kind = "object")

\* feedingLogSchema.validate(body).error is undefined.  A timestamp is
\* [fmt, t]: a string in format fmt that denotes instant t; details is
\* [kind, json]: a JSON value of that kind.
feedingLogSchemaValid(body) ==
    /\ DOMAIN body \subseteq LogKeys
    /\ "device_id" \in DOMAIN body
    /\ body.device_id # ""
    /\ "action" \in DOMAIN body
    /\ body.action \in ValidActions
    /\ "timestamp" \in DOMAIN body
    /\ body.timestamp.fmt = "iso"
    /\ ("details" \in DOMAIN body => body.details.kind = "object")

\* --------------------------------------------------------------- inputs
Devices == {"d1", "d2"}
T0000 == <<"0", "0", ":", "0", "0">>
T0002 == <<"0", "0", ":", "0", "2">>
T1501 == <<"1", "5", ":", "0", "1">>
BadTime == <<"7", ":", "0", "0">>

ConfigBodies ==
    { [device_id |-> "d1", feeding_times |-> <<T0000>>, duration_minutes |-> 30],
      [device_id |-> "d1", feeding_times |-> <<T0002, T0002>>, duration_minutes |-> 120],
      [device_id |-> "d2", feeding_times |-> <<T0000>>, duration_minutes |-> 1],
      [device_id |-> "d1", feeding_times |-> <<BadTime>>, duration_minutes |-> 30],
      [device_id |-> "d1", feeding_times |-> <<T0000>>, duration_minutes |-> 0],
      [device_id |-> "d2", feeding_times |-> <<T0000>>, duration_minutes |-> 121],
      [device_id |-> "", feeding_times |-> <<T0000>>, duration_minutes |-> 30],
      [feeding_times |-> <<T0000>>, duration_minutes |-> 30],
      [device_id |-> "d1", duration_minutes |-> 30],
      [device_id |-> "d1", feeding_times |-> <<T0000>>] }

FewConfigBodies ==
    { [device_id |-> "d1", feeding_times |-> <<T0000>>, duration_minutes |-> 30],
      [device_id |-> "d2", feeding_times |-> <<T0000>>, duration_minutes |-> 1],
      [device_id |-> "d1", feeding_times |-> <<T0000>>, duration_minutes |-> 0] }

NoDetails == [kind |-> "object", json |-> "{}"]
Duration30 == [kind |-> "object", json |-> "{duration:30}"]

\* Bodies sent to POST /api/feeding/log, with the timestamps a client may
\* give (its own clock: any instant).
LogBodies ==
    { [device_id |-> "d1", action |-> "open", timestamp |-> [fmt |-> "iso", t |-> 0]],
      [device_id |-> "d1", action |-> "open", timestamp |-> [fmt |-> "iso", t |-> 1],
       details |-> Duration30],
      [device_id |-> "d1", action |-> "close", timestamp |-> [fmt |-> "iso", t |-> 1]],
      [device_id |-> "d2", action |-> "open", timestamp |-> [fmt |-> "iso", t |-> 0]],
      [device_id |-> "d1", action |-> "feed", timestamp |-> [fmt |-> "iso", t |-> 0]],
      [device_id |-> "d1", action |-> "open", timestamp |-> [fmt |-> "text", t |-> 0]],
      [device_id |-> "d1", action |-> "open", timestamp |-> [fmt |-> "iso", t |-> 0],
       details |-> [kind |-> "string", json |-> "x"]],
      [action |-> "open", timestamp |-> [fmt |-> "iso", t |-> 0]],
      [device_id |-> "d1", action |-> "open"] }

FewLogBodies ==
    { [device_id |-> "d1", action |-> "open", timestamp |-> [fmt |-> "iso", t |-> 0]],
      [device_id |-> "d1", action |-> "close", timestamp |-> [fmt |-> "iso", t |-> 1]],
      [device_id |-> "d1", action |-> "feed", timestamp |-> [fmt |-> "iso", t |-> 0]] }

\* What one feeder sends while the detector is watched: its schedule, and
\* open events stamped with the instant t at which they are sent or with
\* the minute before it.
FeederConfigBodies ==
    { [device_id |-> "d1", feeding_times |-> <<T0000, T0002>>, duration_minutes |-> 1] }
ReportTimes(t) == {t} \cup (IF t >= UnitsPerMinute THEN {t - UnitsPerMinute} ELSE {})
FeederLogBodies(t) ==
    { [device_id |-> "d1", action |-> "open", timestamp |-> [fmt |-> "iso", t |-> ts]] :
        ts \in ReportTimes(t) }

\* A schedule in KST whose entries are read on hosts of different zones:
\* 00:00, and 15:01 (a UTC host shows 15:01 when it is 00:01 KST).
ZoneConfigBodies ==
    { [device_id |-> "d1", feeding_times |-> <<T0000, T1501>>, duration_minutes |-> 1] }

\* The outcomes a store call can have: it fails at most MaxFailures times.
StoreOutcomes == IF Cardinality(errorLog) < MaxFailures THEN BOOLEAN ELSE {TRUE}

\* No response was sent by the last step.
NoResp == [route |-> "none", status |-> 0]

\* The state after start-up, on a host set to any of the zones.
InitZones ==
    /\ hostZone \in HostZones
    /\ clock = 0
    /\ up = TRUE
    /\ deviceConfigs = <<>>
    /\ device_configs = {}
    /\ feeding_logs = <<>>
    /\ missed_feedings = {}
    /\ pending = {}
    /\ runs = {}
    /\ tickDue = TRUE
    /\ errorLog = {}
    /\ resp = NoResp

\* The state after start-up on a host set to KST.
Init == InitZones /\ hostZone = KST

\* ------------------------------------------------- POST /api/device/config
\* Map.prototype.set: an existing key keeps its place, a new key goes last.
MapSet(map, key, value) ==
    IF \E i \in 1..Len(map) : map[i].device_id = key
    THEN [i \in 1..Len(map) |-> IF map[i].device_id = key THEN value ELSE map[i]]
    ELSE Append(map, value)

\* The registry entry of lines 87-91 (last_update is never read: left out).
ConfigEntry(body) ==
    [device_id |-> body.device_id, feeding_times |-> body.feeding_times,
     duration_minutes |-> body.duration_minutes]

\* The INSERT without its ON CONFLICT clause taking effect: a second row.
InsertConfigAgain(rows, body) == rows \cup {ConfigEntry(body)}

\* INSERT INTO device_configs ... ON CONFLICT (device_id) DO UPDATE (the
\* created_at / updated_at columns are never read: left out).
UpsertConfig(rows, body) ==
    IF \E r \in rows : r.device_id = body.device_id
    THEN { IF r.device_id = body.device_id
           THEN [r EXCEPT !.feeding_times = body.feeding_times,
                          !.duration_minutes = body.duration_minutes]
           ELSE r : r \in rows }
    ELSE rows \cup {ConfigEntry(body)}

\* The handler up to its await: validation, 400, or the Map.set and the
\* INSERT sent to the pool.
ConfigPost(body) ==
    /\ up
    /\ IF ~configUpdateSchemaValid(body)
       THEN /\ resp' = [route |-> "POST /api/device/config", status |-> 400]
            /\ UNCHANGED <<deviceConfigs, pending>>
       ELSE /\ Cardinality(pending) < MaxPending
            /\ body \notin pending
            /\ deviceConfigs' = MapSet(deviceConfigs, body.device_id, ConfigEntry(body))
            /\ pending' = pending \cup {body}
            /\ resp' = NoResp
    /\ UNCHANGED <<hostZone, clock, up, device_configs, feeding_logs, missed_feedings, runs,
                   tickDue, errorLog>>

\* The INSERT of line 94 succeeds: 200.
ConfigSaved(body) ==
    /\ up
    /\ body \in pending
    /\ pending' = pending \ {body}
    /\ device_configs' = UpsertConfig(device_configs, body)
    /\ resp' = [route |-> "POST /api/device/config", status |-> 200]
    /\ UNCHANGED <<hostZone, clock, up, deviceConfigs, feeding_logs, missed_feedings, runs,
                   tickDue, errorLog>>

\* The INSERT of line 94 is rejected (store unreachable): catch, 500.
ConfigSaveFailed(body) ==
    /\ up
    /\ body \in pending
    /\ pending' = pending \ {body}
    /\ errorLog' = errorLog \cup {"Error updating device config:"}
    /\ resp' = [route |-> "POST /api/device/config", status |-> 500]
    /\ UNCHANGED <<hostZone, clock, up, deviceConfigs, device_configs, feeding_logs,
                   missed_feedings, runs, tickDue>>

\* --------------------------------------------------- POST /api/feeding/log
\* The row of lines 120-124: timestamp parsed by the store, details || {}.
LogRow(body) ==
    [device_id |-> body.device_id, action |-> body.action,
     timestamp |-> body.timestamp.t,
     details |-> IF "details" \in DOMAIN body THEN body.details ELSE NoDetails]

\* An upsert keyed by device_id in place of the INSERT: the device's earlier
\* events are replaced by the new one.
OverwriteLog(rows, body) ==
    Append(SelectSeq(rows, LAMBDA row : row.device_id # body.device_id), LogRow(body))

InsertLog(rows, body) == Append(rows, LogRow(body))

FeedingLogPost(body, dbOk) ==
    /\ up
    /\ IF ~feedingLogSchemaValid(body)
       THEN /\ resp' = [route |-> "POST /api/feeding/log", status |-> 400]
            /\ UNCHANGED <<feeding_logs, errorLog>>
       ELSE IF dbOk
       THEN /\ Len(feeding_logs) < MaxLogs
            /\ feeding_logs' = InsertLog(feeding_logs, body)
            /\ resp' = [route |-> "POST /api/feeding/log", status |-> 200]
            /\ UNCHANGED errorLog
       ELSE /\ errorLog' = errorLog \cup {"Error logging feeding event:"}
            /\ resp' = [route |-> "POST /api/feeding/log", status |-> 500]
            /\ UNCHANGED feeding_logs
    /\ UNCHANGED <<hostZone, clock, up, deviceConfigs, device_configs, missed_feedings, pending,
                   runs, tickDue>>

\* ------------------------------------------------------------ GET handlers
LogQueries ==
    { [x \in {} |-> 0],
      [limit |-> 1], [limit |-> 2], [limit |-> 0], [limit |-> -1],
      [start_date |-> UnitsPerMinute], [end_date |-> UnitsPerMinute],
      [start_date |-> 1, end_date |-> UnitsPerMinute, limit |-> 1] }

FewLogQueries == { [x \in {} |-> 0], [limit |-> 1] }

\* The rows (as positions in the table) that the WHERE clause of lines
\* 140-154 selects.
LogsWhere(rows, device_id, query) ==
    { i \in 1..Len(rows) :
        /\ rows[i].device_id = device_id
        /\ ("start_date" \in DOMAIN query => rows[i].timestamp >= query.start_date)
        /\ ("end_date" \in DOMAIN query => rows[i].timestamp <= query.end_date) }

\* ORDER BY timestamp ASC in place of DESC.
OrderedAsc(rows, sel) ==
    { s \in [1..Cardinality(sel) -> sel] :
        /\ \A i, j \in 1..Cardinality(sel) : i # j => s[i] # s[j]
        /\ \A i, j \in 1..Cardinality(sel) :
              i < j => rows[s[i]].timestamp <= rows[s[j]].timestamp }

\* ORDER BY timestamp DESC: every arrangement of the selected rows in which
\* timestamps never increase (the store orders equal timestamps as it likes).
OrderedDesc(rows, sel) ==
    { s \in [1..Cardinality(sel) -> sel] :
        /\ \A i, j \in 1..Cardinality(sel) : i # j => s[i] # s[j]
        /\ \A i, j \in 1..Cardinality(sel) :
              i < j => rows[s[i]].timestamp >= rows[s[j]].timestamp }

\* `limit = 100` of line 138
LimitOf(query) == IF "limit" \in DOMAIN query THEN query.limit ELSE DefaultLimit

\* LIMIT n applied to an ordering s of row positions.
Limited(rows, s, n) == [i \in 1..(IF n < Len(s) THEN n ELSE Len(s)) |-> rows[s[i]]]

GetLogs(device_id, query, dbOk) ==
    /\ up
    /\ IF dbOk /\ LimitOf(query) >= 0
       THEN /\ \E s \in OrderedDesc(feeding_logs, LogsWhere(feeding_logs, device_id, query)) :
                 resp' = [route |-> "GET /api/feeding/logs", status |-> 200,
                          rows |-> Limited(feeding_logs, s, LimitOf(query))]
            /\ UNCHANGED errorLog
       ELSE /\ errorLog' = errorLog \cup {"Error fetching logs:"}
            /\ resp' = [route |-> "GET /api/feeding/logs", status |-> 500]
    /\ UNCHANGED <<hostZone, clock, up, deviceConfigs, device_configs, feeding_logs,
                   missed_feedings, pending, runs, tickDue>>

MissedQueries == { [x \in {} |-> 0], [date |-> 1] }
\* `days = 7` of line 191
StatsDays == {7}

\* DATE(t), and new Date().toISOString().split('T')[0]
DateOf(t) == t \div (24 * 60 * UnitsPerMinute)

RECURSIVE Ascending(_)
\* The integers of S as a sequence, smallest first.
Ascending(S) ==
    IF S = {} THEN <<>>
    ELSE LET m == CHOOSE x \in S : \A y \in S : x <= y
         IN  <<m>> \o Ascending(S \ {m})

\* Ascending(S) read backwards.
Descending(S) ==
    LET a == Ascending(S) IN [i \in 1..Len(a) |-> a[Len(a) + 1 - i]]

\* ORDER BY scheduled_time of rows of one device (UNIQUE makes the keys differ).
ByScheduledTime(rows) ==
    LET a == Ascending({ m.scheduled_time : m \in rows })
    IN  [i \in 1..Len(a) |-> CHOOSE m \in rows : m.scheduled_time = a[i]]

GetMissed(device_id, query, dbOk) ==
    /\ up
    /\ IF dbOk
       THEN /\ resp' = [route |-> "GET /api/feeding/missed", status |-> 200,
                        rows |-> ByScheduledTime(
                            { m \in missed_feedings :
                                /\ m.device_id = device_id
                                /\ DateOf(m.scheduled_time) =
                                     (IF "date" \in DOMAIN query THEN query.date
                                      ELSE DateOf(clock)) })]
            /\ UNCHANGED errorLog
       ELSE /\ errorLog' = errorLog \cup {"Error fetching missed feedings:"}
            /\ resp' = [route |-> "GET /api/feeding/missed", status |-> 500]
    /\ UNCHANGED <<hostZone, clock, up, deviceConfigs, device_configs, feeding_logs,
                   missed_feedings, pending, runs, tickDue>>

\* COUNT(CASE WHEN action = a THEN 1 END) over the rows at positions sel.
CountAction(rows, sel, a) == Cardinality({ i \in sel : rows[i].action = a })

GetStats(device_id, days, dbOk) ==
    /\ up
    /\ IF dbOk
       THEN LET since == clock - days * 24 * 60 * UnitsPerMinute
                sel == { i \in 1..Len(feeding_logs) :
                           /\ feeding_logs[i].device_id = device_id
                           /\ feeding_logs[i].timestamp >= since }
                mis == { m \in missed_feedings :
                           m.device_id = device_id /\ m.scheduled_time >= since }
                dates == Descending({ DateOf(feeding_logs[i].timestamp) : i \in sel })
                stats ==
                    [ k \in 1..Len(dates) |-> LET d == dates[k] IN
                      [date |-> d,
                       opens |-> CountAction(feeding_logs,
                           { i \in sel : DateOf(feeding_logs[i].timestamp) = d }, "open"),
                       closes |-> CountAction(feeding_logs,
                           { i \in sel : DateOf(feeding_logs[i].timestamp) = d }, "close"),
                       errors |-> CountAction(feeding_logs,
                           { i \in sel : DateOf(feeding_logs[i].timestamp) = d }, "error")] ]
            IN  /\ resp' = [route |-> "GET /api/stats", status |-> 200,
                            feeding_stats |-> stats,
                            missed_feedings |->
                                { [date |-> d,
                                   missed_count |-> Cardinality(
                                       { m \in mis : DateOf(m.scheduled_time) = d })] :
                                  d \in { DateOf(m.scheduled_time) : m \in mis } }]
                /\ UNCHANGED errorLog
       ELSE /\ errorLog' = errorLog \cup {"Error fetching statistics:"}
            /\ resp' = [route |-> "GET /api/stats", status |-> 500]
    /\ UNCHANGED <<hostZone, clock, up, deviceConfigs, device_configs, feeding_logs,
                   missed_feedings, pending, runs, tickDue>>

GetHealth ==
    /\ up
    /\ resp' = [route |-> "GET /api/health", status |-> 200, timestamp |-> clock]
    /\ UNCHANGED <<hostZone, clock, up, deviceConfigs, device_configs, feeding_logs,
                   missed_feedings, pending, runs, tickDue, errorLog>>

\* ------------------------------------------- the missed-feeding detector
\* A tick in flight: now (line 229), the Map entry it is at, what it awaits
\* ("query": the SELECT of line 235, "insert": the INSERT of line 245,
\* "done": the loop has ended), the devices it has examined so far, and
\* the rows its INSERTs have written (the rowCount of their results).

\* The for-loop of line 232 from the entry after r.idx up to its next await:
\* entries whose feeding_times lack currentTime are passed over.
Scan(r, map) ==
    LET hits == { i \in (r.idx + 1)..Len(map) :
                    includes(map[i].feeding_times, currentTime(r.now)) }
    IN  IF hits = {}
        THEN [r EXCEPT !.idx = 0, !.phase = "done"]
        ELSE LET j == CHOOSE i \in hits : \A k \in hits : i <= k
             IN  [r EXCEPT !.idx = j, !.phase = "query",
                           !.examined = @ \cup {map[j].device_id}]

\* The SELECT counting only the open events of the minute of the check, in
\* place of those of the last five minutes.
CountOpensThisMinute(rows, device_id, dbNow) ==
    toString(Cardinality({ i \in 1..Len(rows) :
        /\ rows[i].device_id = device_id
        /\ rows[i].action = "open"
        /\ rows[i].timestamp >= dbNow - (dbNow % UnitsPerMinute) }))

\* SELECT COUNT(*) ... of lines 236-239 at store time dbNow, as pg returns
\* it: a bigint, sent as text.
CountOpens(rows, device_id, dbNow) ==
    toString(Cardinality({ i \in 1..Len(rows) :
        /\ rows[i].device_id = device_id
        /\ rows[i].action = "open"
        /\ rows[i].timestamp >= dbNow - GraceMinutes * UnitsPerMinute }))

\* The INSERT with ON CONFLICT (device_id, scheduled_time) DO UPDATE SET
\* detected_at = NOW(), resolved = FALSE: a re-detection rewrites the row.
InsertMissedOrUpdate(rows, device_id, scheduled_time, dbNow) ==
    { m \in rows : ~(m.device_id = device_id /\ m.scheduled_time = scheduled_time) }
        \cup {[device_id |-> device_id, scheduled_time |-> scheduled_time,
                detected_at |-> dbNow, resolved |-> FALSE]}

\* INSERT INTO missed_feedings ... ON CONFLICT (device_id, scheduled_time)
\* DO NOTHING, at store time dbNow (the id column is never read: left out).
InsertMissed(rows, device_id, scheduled_time, dbNow) ==
    IF \E m \in rows : m.device_id = device_id /\ m.scheduled_time = scheduled_time
    THEN rows
    ELSE rows \cup {[device_id |-> device_id, scheduled_time |-> scheduled_time,
                     detected_at |-> dbNow, resolved |-> FALSE]}

\* The tick without its try/catch: the rejection is unhandled and ends the
\* process.
DetectorRethrow(log) == [errorLog |-> log, up |-> FALSE]

\* The catch of lines 256-258: the error is logged and the tick ends.
DetectorCatch(log) ==
    [errorLog |-> log \cup {"Error checking for missed feedings:"}, up |-> TRUE]

\* node-cron fires the callback of line 227.
DetectorStart ==
    /\ up
    /\ Cardinality(runs) < MaxRuns
    /\ \A r \in runs : r.now # clock
    /\ runs' = runs \cup
         {Scan([now |-> clock, idx |-> 0, phase |-> "start", examined |-> {},
                rowCount |-> 0], deviceConfigs)}
    /\ tickDue' = FALSE
    /\ resp' = NoResp
    /\ UNCHANGED <<hostZone, clock, up, deviceConfigs, device_configs, feeding_logs,
                   missed_feedings, pending, errorLog>>

\* The SELECT of line 235 returns, or is rejected.
DetectorQuery(r, dbOk) ==
    /\ up
    /\ r \in runs
    /\ r.phase = "query"
    /\ IF dbOk
       THEN /\ runs' = (runs \ {r}) \cup
                 { IF CountOpens(feeding_logs, deviceConfigs[r.idx].device_id, clock)
                        = <<"0">>
                   THEN [r EXCEPT !.phase = "insert"]
                   ELSE Scan(r, deviceConfigs) }
            /\ UNCHANGED <<up, errorLog>>
       ELSE /\ runs' = runs \ {r}
            /\ errorLog' = DetectorCatch(errorLog).errorLog
            /\ up' = DetectorCatch(errorLog).up
    /\ resp' = NoResp
    /\ UNCHANGED <<hostZone, clock, deviceConfigs, device_configs, feeding_logs,
                   missed_feedings, pending, tickDue>>

\* The INSERT of line 245 returns, or is rejected.
DetectorInsert(r, dbOk) ==
    /\ up
    /\ r \in runs
    /\ r.phase = "insert"
    /\ IF dbOk
       THEN /\ missed_feedings' =
                 InsertMissed(missed_feedings, deviceConfigs[r.idx].device_id,
                              r.now, clock)
            /\ runs' = (runs \ {r}) \cup
                 {Scan([r EXCEPT !.rowCount = @ + Cardinality(missed_feedings')
                                                - Cardinality(missed_feedings)],
                       deviceConfigs)}
            /\ UNCHANGED <<up, errorLog>>
       ELSE /\ runs' = runs \ {r}
            /\ errorLog' = DetectorCatch(errorLog).errorLog
            /\ up' = DetectorCatch(errorLog).up
            /\ UNCHANGED missed_feedings
    /\ resp' = NoResp
    /\ UNCHANGED <<hostZone, clock, deviceConfigs, device_configs, feeding_logs, pending,
                   tickDue>>

\* The callback's promise settles.
DetectorReturn(r) ==
    /\ up
    /\ r \in runs
    /\ r.phase = "done"
    /\ runs' = runs \ {r}
    /\ resp' = NoResp
    /\ UNCHANGED <<hostZone, clock, up, deviceConfigs, device_configs, feeding_logs,
                   missed_feedings, pending, tickDue, errorLog>>

\* ------------------------------------------------------------ environment
\* An operator marks an incident resolved, in the store (no endpoint of the
\* collector does it).
OperatorResolve(m) ==
    /\ m \in missed_feedings
    /\ ~m.resolved
    /\ missed_feedings' = (missed_feedings \ {m}) \cup {[m EXCEPT !.resolved = TRUE]}
    /\ resp' = NoResp
    /\ UNCHANGED <<hostZone, clock, up, deviceConfigs, device_configs, feeding_logs,
                   pending, runs, tickDue, errorLog>>

\* Time passes.  A running collector's cron job fires in every minute, so
\* the minute does not end with its tick still due.
Advance(limit) ==
    /\ clock < limit
    /\ clock' = clock + 1
    /\ IF (clock + 1) % UnitsPerMinute = 0
       THEN (up => ~tickDue) /\ tickDue' = up
       ELSE UNCHANGED tickDue
    /\ resp' = NoResp
    /\ UNCHANGED <<hostZone, up, deviceConfigs, device_configs, feeding_logs,
                   missed_feedings, pending, runs, errorLog>>

\* The process is stopped and started again (systemctl restart): what lives
\* in memory is gone, the tables stay; cron next fires in the next minute.
Restart ==
    /\ up' = TRUE
    /\ deviceConfigs' = <<>>
    /\ pending' = {}
    /\ runs' = {}
    /\ tickDue' = FALSE
    /\ resp' = NoResp
    /\ UNCHANGED <<hostZone, clock, device_configs, feeding_logs, missed_feedings, errorLog>>

\* Every operation of the collector, on a few requests of each kind, with
\* the store answering (its failures are in the specifications below).
Next ==
    \/ \E body \in FewConfigBodies : ConfigPost(body)
    \/ \E body \in pending : ConfigSaved(body)
    \/ \E body \in FewLogBodies : FeedingLogPost(body, TRUE)
    \/ \E d \in Devices, q \in FewLogQueries : GetLogs(d, q, TRUE)
    \/ \E d \in Devices, q \in MissedQueries : GetMissed(d, q, TRUE)
    \/ \E d \in Devices, days \in StatsDays : GetStats(d, days, TRUE)
    \/ GetHealth
    \/ DetectorStart
    \/ \E r \in runs : DetectorQuery(r, TRUE)
    \/ \E r \in runs : DetectorInsert(r, TRUE)
    \/ \E r \in runs : DetectorReturn(r)
    \/ Advance(MaxTimeApi)
    \/ Restart

Spec == Init /\ [][Next]_vars

\* The configuration endpoint on every kind of body, with restarts.
NextConfig ==
    \/ \E body \in ConfigBodies : ConfigPost(body)
    \/ \E body \in pending : ConfigSaved(body)
    \/ \E body \in pending : FALSE \in StoreOutcomes /\ ConfigSaveFailed(body)
    \/ Advance(MaxTimeApi)
    \/ Restart

SpecConfig == Init /\ [][NextConfig]_vars

\* The event log's endpoint and the read endpoints, on every kind of body
\* and query.
NextLogs ==
    \/ \E body \in LogBodies, dbOk \in StoreOutcomes : FeedingLogPost(body, dbOk)
    \/ \E d \in Devices, q \in LogQueries, dbOk \in StoreOutcomes : GetLogs(d, q, dbOk)
    \/ \E d \in Devices, q \in MissedQueries, dbOk \in StoreOutcomes : GetMissed(d, q, dbOk)
    \/ \E d \in Devices, days \in StatsDays, dbOk \in StoreOutcomes : GetStats(d, days, dbOk)
    \/ Restart

SpecLogs == Init /\ [][NextLogs]_vars

\* The detector with the operations that write what it reads, over the
\* minutes a schedule entry and its grace period take.  The GET handlers
\* write none of it.
NextDetector ==
    \/ \E body \in FeederConfigBodies : ConfigPost(body)
    \/ \E body \in pending : ConfigSaved(body)
    \/ \E body \in FeederLogBodies(clock) :
          Len(feeding_logs) < MaxOpens /\ FeedingLogPost(body, TRUE)
    \/ DetectorStart
    \/ \E r \in runs, dbOk \in StoreOutcomes : DetectorQuery(r, dbOk)
    \/ \E r \in runs, dbOk \in StoreOutcomes : DetectorInsert(r, dbOk)
    \/ \E r \in runs : DetectorReturn(r)
    \/ Advance(MaxTime)
    \/ Restart

SpecDetector == Init /\ [][NextDetector]_vars

\* The detector on hosts of different zones, no feeder reporting.
NextZones ==
    \/ \E body \in ZoneConfigBodies : ConfigPost(body)
    \/ \E body \in pending : ConfigSaved(body)
    \/ DetectorStart
    \/ \E r \in runs : DetectorQuery(r, TRUE)
    \/ \E r \in runs : DetectorInsert(r, TRUE)
    \/ \E r \in runs : DetectorReturn(r)
    \/ Advance(MaxTime)
    \/ Restart

SpecZones == InitZones /\ [][NextZones]_vars

\* The detector and the operator who resolves its incidents, no feeder
\* reporting.
NextIncidents ==
    \/ \E body \in FeederConfigBodies : ConfigPost(body)
    \/ \E body \in pending : ConfigSaved(body)
    \/ DetectorStart
    \/ \E r \in runs : DetectorQuery(r, TRUE)
    \/ \E r \in runs : DetectorInsert(r, TRUE)
    \/ \E r \in runs : DetectorReturn(r)
    \/ \E m \in missed_feedings : OperatorResolve(m)
    \/ Advance(MaxTimeApi)
    \/ Restart

SpecIncidents == Init /\ [][NextIncidents]_vars

\* ================================================================ claims
MinuteOf(t) == t \div UnitsPerMinute
MinuteStart(t) == MinuteOf(t) * UnitsPerMinute
DetectorError == "Error checking for missed feedings:"

\* C1: however many detector runs fall within one minute, missed_feedings
\* holds at most one incident per device and scheduled feeding minute.
C1_OneIncidentPerFeeding ==
    \A m1, m2 \in missed_feedings :
        (m1.device_id = m2.device_id
         /\ MinuteOf(m1.scheduled_time) = MinuteOf(m2.scheduled_time))
        => m1.scheduled_time = m2.scheduled_time

\* C2: an incident for a device and a feeding due at T is recorded only if
\* the device has no open event stamped within [T, T + grace period].
C2_OpenInWindowPreventsIncident ==
    \A m \in missed_feedings :
        ~ \E i \in 1..Len(feeding_logs) :
            /\ feeding_logs[i].device_id = m.device_id
            /\ feeding_logs[i].action = "open"
            /\ feeding_logs[i].timestamp >= MinuteStart(m.scheduled_time)
            /\ feeding_logs[i].timestamp <=
                 MinuteStart(m.scheduled_time) + GraceMinutes * UnitsPerMinute

\* C3: once T + grace period + 1 minute has passed with no open event of a
\* registered device whose schedule contains T, and the detector has seen the
\* miss with the store answering, the device has exactly one incident for
\* that minute and its scheduled_time is the minute T itself.
C3_MissRecordedAtScheduledMinute ==
    \A d \in Devices, T \in 0..MaxMinute :
        ( /\ clock >= (T + GraceMinutes + 1) * UnitsPerMinute
          /\ \E i \in 1..Len(deviceConfigs) :
                /\ deviceConfigs[i].device_id = d
                /\ includes(deviceConfigs[i].feeding_times,
                            currentTime(T * UnitsPerMinute))
          /\ ~ \E i \in 1..Len(feeding_logs) :
                feeding_logs[i].device_id = d /\ feeding_logs[i].action = "open"
          /\ DetectorError \notin errorLog
          /\ \E m \in missed_feedings :
                m.device_id = d /\ MinuteOf(m.scheduled_time) = T )
        => { m.scheduled_time : m \in { x \in missed_feedings :
                 x.device_id = d /\ MinuteOf(x.scheduled_time) = T } }
           = {T * UnitsPerMinute}

\* C4: a store failure in a detector tick is caught and logged by that
\* tick: the process stays up, no HTTP response comes of it, no incident is
\* written by the failed call, and cron can start the next tick.
C4_DetectorFailureIsolated ==
    [][ \A r \in runs :
          (DetectorQuery(r, FALSE) \/ DetectorInsert(r, FALSE))
          => /\ up'
             /\ DetectorError \in errorLog'
             /\ resp' = NoResp
             /\ missed_feedings' = missed_feedings
             /\ r \notin runs'
             /\ Cardinality(runs') < MaxRuns ]_vars

\* C4 (witness): after a failed tick, a tick has run to its end and its
\* incident is in the table.
C4_Witness ==
    /\ up
    /\ DetectorError \in errorLog
    /\ \E r \in runs, m \in missed_feedings :
          r.phase = "done" /\ m.scheduled_time = r.now

\* C5: a tick that ends has examined every device whose persisted
\* configuration lists the tick's minute.
C5_EveryPersistedDeviceExamined ==
    [][ \A r \in runs' :
          (r.phase = "done" /\ r \notin runs)
          => \A row \in device_configs :
                (row \in device_configs'
                 /\ includes(row.feeding_times, currentTime(r.now)))
                => row.device_id \in r.examined ]_vars

ConfigRoute == "POST /api/device/config"
LogRoute == "POST /api/feeding/log"
LogsRoute == "GET /api/feeding/logs"

\* The schedule invariant of a stored configuration: pairwise distinct HH:MM
\* times, a duration within 1..120.
ScheduleInvariant(c) ==
    /\ \A i \in 1..Len(c.feeding_times) : MatchesHHMM(c.feeding_times[i])
    /\ \A i, j \in 1..Len(c.feeding_times) :
          i # j => c.feeding_times[i] # c.feeding_times[j]
    /\ c.duration_minutes >= 1
    /\ c.duration_minutes <= 120

\* C6: the table holds one configuration per device; a push answered 200
\* leaves its device's row with the pushed times and duration and every
\* other row as it was; nothing else changes the table, and no row is
\* ever removed.
C6_ConfigUpsert ==
    [][ /\ \A r1, r2 \in device_configs' : r1.device_id = r2.device_id => r1 = r2
        /\ \A r \in device_configs : \E r2 \in device_configs' : r2.device_id = r.device_id
        /\ (resp'.route = ConfigRoute /\ resp'.status = 200)
           => \E body \in pending :
                 /\ pending' = pending \ {body}
                 /\ \E r \in device_configs' :
                       /\ r.device_id = body.device_id
                       /\ r.feeding_times = body.feeding_times
                       /\ r.duration_minutes = body.duration_minutes
                 /\ \A r \in device_configs :
                       r.device_id # body.device_id => r \in device_configs'
        /\ device_configs' # device_configs
           => (resp'.route = ConfigRoute /\ resp'.status = 200) ]_vars

\* C6 (witness): both devices have a row, the last push was answered 200 and
\* d1's row holds the second of d1's two schedules.
C6_Witness ==
    /\ resp.route = ConfigRoute
    /\ resp.status = 200
    /\ \E r \in device_configs : r.device_id = "d2"
    /\ \E r \in device_configs :
          r.device_id = "d1" /\ r.feeding_times = <<T0002, T0002>>
    /\ Cardinality(device_configs) = 2

\* C7: every stored configuration satisfies the schedule invariant.
C7_StoredConfigsKeepScheduleInvariant ==
    \A row \in device_configs : ScheduleInvariant(row)

\* A body that breaks the schema of POST /api/feeding/log as the interface
\* states it.
C8_SchemaViolation(body) ==
    \/ "device_id" \notin DOMAIN body
    \/ "action" \notin DOMAIN body
    \/ body.action \notin {"open", "close", "error", "startup", "shutdown"}
    \/ "timestamp" \notin DOMAIN body
    \/ body.timestamp.fmt # "iso"

\* C8: a body that breaks the schema is answered 400 and nothing is
\* appended; a 200 is sent only with exactly one event appended, carrying
\* the submitted device_id, action, timestamp and details.
C8_LogPostAnswers ==
    [][ /\ \A body \in LogBodies, dbOk \in BOOLEAN :
              (resp'.route = LogRoute /\ C8_SchemaViolation(body)
               /\ FeedingLogPost(body, dbOk))
              => (resp'.status = 400 /\ feeding_logs' = feeding_logs)
        /\ (resp'.route = LogRoute /\ resp'.status = 400)
           => feeding_logs' = feeding_logs
        /\ (resp'.route = LogRoute /\ resp'.status = 200)
           => \E body \in LogBodies :
                 /\ FeedingLogPost(body, TRUE)
                 /\ ~C8_SchemaViolation(body)
                 /\ feeding_logs' = Append(feeding_logs,
                       [device_id |-> body.device_id, action |-> body.action,
                        timestamp |-> body.timestamp.t,
                        details |-> IF "details" \in DOMAIN body THEN body.details
                                    ELSE [kind |-> "object", json |-> "{}"]]) ]_vars

\* C8 (witness): a 200 has just been sent for an event with details, after
\* an earlier event.
C8_Witness ==
    /\ resp.route = LogRoute
    /\ resp.status = 200
    /\ Len(feeding_logs) = 2
    /\ feeding_logs[2].details = Duration30

\* C9: whatever the collector does, the rows of feeding_logs stay as they
\* are and in place: the table only grows at its end.
C9_AppendOnly ==
    [][ /\ Len(feeding_logs') >= Len(feeding_logs)
        /\ \A i \in 1..Len(feeding_logs) : feeding_logs'[i] = feeding_logs[i] ]_vars

\* C9 (witness): with two events stored and an incident recorded, the log
\* has just been read.
C9_Witness ==
    /\ Len(feeding_logs) = 2
    /\ missed_feedings # {}
    /\ device_configs # {}
    /\ resp.route = LogsRoute
    /\ Len(resp.rows) > 0

\* C10: GET /api/feeding/logs/:device_id with at most a limit N (100 when
\* omitted) answers with events of that device only, never older before
\* newer, as many as the device has up to N, and none left out is newer than
\* one returned.
C10_LogsMostRecentFirst ==
    [][ \A d \in Devices, q \in LogQueries :
          (resp'.route = LogsRoute /\ resp'.status = 200
           /\ DOMAIN q \subseteq {"limit"} /\ GetLogs(d, q, TRUE))
          => LET N == IF "limit" \in DOMAIN q THEN q.limit ELSE 100
                 rows == resp'.rows
                 own == { i \in 1..Len(feeding_logs) : feeding_logs[i].device_id = d }
             IN  /\ \A i \in 1..Len(rows) : rows[i].device_id = d
                 /\ \A i, j \in 1..Len(rows) :
                       i < j => rows[i].timestamp >= rows[j].timestamp
                 /\ Len(rows) = (IF N < Cardinality(own) THEN N ELSE Cardinality(own))
                 /\ \E f \in [1..Len(rows) -> own] :
                       /\ \A i, j \in 1..Len(rows) : i # j => f[i] # f[j]
                       /\ \A i \in 1..Len(rows) : feeding_logs[f[i]] = rows[i]
                       /\ \A p \in own :
                             (\A i \in 1..Len(rows) : f[i] # p)
                             => \A i \in 1..Len(rows) :
                                   rows[i].timestamp >= feeding_logs[p].timestamp ]_vars

\* C10 (witness): d1's older event was stored first, its newer one second,
\* and a read with limit 1 has answered with the newer one alone.
C10_Witness ==
    /\ resp.route = LogsRoute
    /\ resp.status = 200
    /\ Len(feeding_logs) = 2
    /\ feeding_logs[1].device_id = "d1"
    /\ feeding_logs[2].device_id = "d1"
    /\ feeding_logs[1].timestamp < feeding_logs[2].timestamp
    /\ resp.rows = <<feeding_logs[2]>>

\* The HH:MM that the schedule's timezone, KST, shows at instant t.
C11_KstTime(t) ==
    padStart2(toString(LocalMinuteOfDay(KST, t) \div 60)) \o <<":">>
        \o padStart2(toString(LocalMinuteOfDay(KST, t) % 60))

\* C11: whatever the host's timezone, an incident is recorded for a device
\* only at an instant whose time of day in KST is an entry of the device's
\* schedule, so collectors on hosts of different zones record the same
\* (device, scheduled instant) pairs.
C11_IncidentsAtKstScheduleTimes ==
    \A m \in missed_feedings, i \in 1..Len(deviceConfigs) :
        deviceConfigs[i].device_id = m.device_id
        => includes(deviceConfigs[i].feeding_times, C11_KstTime(m.scheduled_time))

\* C12: when the check's SELECT returns and the device has an open event
\* stamped within the five minutes before the check, whatever feeding that
\* event was for, the tick records no incident for the device and passes on.
C12_OpenWithinGraceMasks ==
    [][ \A r \in runs :
          ( /\ r.phase = "query"
            /\ DetectorQuery(r, TRUE)
            /\ \E i \in 1..Len(feeding_logs) :
                  /\ feeding_logs[i].device_id = deviceConfigs[r.idx].device_id
                  /\ feeding_logs[i].action = "open"
                  /\ feeding_logs[i].timestamp >= clock - 5 * UnitsPerMinute
                  /\ feeding_logs[i].timestamp <= clock )
          => /\ missed_feedings' = missed_feedings
             /\ \A r2 \in runs' \ runs : r2.phase # "insert" ]_vars

\* C12 (witness): d1's schedule lists 00:00 and 00:02, its only open event
\* is stamped in minute 0, and the tick of minute 2 has examined d1 and
\* ended with no incident recorded for minute 2.
C12_Witness ==
    /\ \E i \in 1..Len(deviceConfigs) :
          /\ deviceConfigs[i].device_id = "d1"
          /\ deviceConfigs[i].feeding_times = <<T0000, T0002>>
    /\ Len(feeding_logs) = 1
    /\ feeding_logs[1].device_id = "d1"
    /\ feeding_logs[1].action = "open"
    /\ MinuteOf(feeding_logs[1].timestamp) = 0
    /\ \E r \in runs :
          /\ MinuteOf(r.now) = 2
          /\ r.phase = "done"
          /\ "d1" \in r.examined
    /\ \A m \in missed_feedings : MinuteOf(m.scheduled_time) # 2

\* Two incidents are of the same device and scheduled_time.
C13_SameKey(m1, m2) ==
    m1.device_id = m2.device_id /\ m1.scheduled_time = m2.scheduled_time

\* A step of a detector tick.
C13_DetectorStep ==
    \/ DetectorStart
    \/ \E r \in runs, dbOk \in BOOLEAN :
          DetectorQuery(r, dbOk) \/ DetectorInsert(r, dbOk) \/ DetectorReturn(r)

\* C13: a row that appears in missed_feedings under a new key is written by
\* a tick's INSERT and has resolved = FALSE; a step of a tick leaves every
\* existing row as it is (resolved, detected_at and scheduled_time, also
\* when an operator has resolved it) and adds no row under an existing key.
C13_DetectorLeavesIncidents ==
    [][ /\ \A m \in missed_feedings' :
              (\A x \in missed_feedings : ~C13_SameKey(x, m))
              => /\ m.resolved = FALSE
                 /\ \E r \in runs : r.phase = "insert" /\ r.now = m.scheduled_time
        /\ C13_DetectorStep
           => /\ missed_feedings \subseteq missed_feedings'
              /\ \A m \in missed_feedings' \ missed_feedings :
                    \A x \in missed_feedings : ~C13_SameKey(x, m) ]_vars

\* C13 (witness): an incident is resolved; a tick has detected the same
\* device and scheduled_time again and ended, its INSERT having written no
\* row.
C13_Witness ==
    \E m \in missed_feedings, r \in runs :
        /\ m.resolved
        /\ r.now = m.scheduled_time
        /\ r.phase = "done"
        /\ m.device_id \in r.examined
        /\ r.rowCount = 0
        /\ feeding_logs = <<>>

\* C14: while the collector runs with no config push in flight, every
\* registry entry has the feeding_times and duration_minutes of its
\* device's row in device_configs.
C14_RegistryAgreesWithStore ==
    (up /\ pending = {})
    => \A i \in 1..Len(deviceConfigs) :
          \E row \in device_configs :
              /\ row.device_id = deviceConfigs[i].device_id
              /\ row.feeding_times = deviceConfigs[i].feeding_times
              /\ row.duration_minutes = deviceConfigs[i].duration_minutes

====
